---- MODULE Spec2Model ----
(***************************************************************************)
(* Model of mace::utils::ThreadPool (mace/utils/thread_pool.cc).           *)
(*                                                                         *)
(* The dispatcher (Init / Run / Destroy), the worker main loop             *)
(* (ThreadLoop) and the work-stealing routine (ThreadRun) are modelled as  *)
(* a state machine with one step per shared-memory access.  The tile       *)
(* planner (Compute1D/2D/3D) is modelled as operators computed the way     *)
(* the code computes them.                                                 *)
(*                                                                         *)
(* Threads: clients (the threads that call the public API; a client that   *)
(* is inside Run executes ThreadRun(0)) are the negative ids, worker       *)
(* threads 1..T-1 are the positive ids.                                    *)
(*                                                                         *)
(* CountDownLatch (count_down_latch.h), SpinWait (spinlock.h) and RoundUp  *)
(* (math.h) are not part of thread_pool.cc; they are modelled from their   *)
(* description in the specification (sections 4.1, 4.2, 4.5).              *)
(***************************************************************************)
EXTENDS Integers, Naturals, Sequences, FiniteSets, TLC

\* ---------------------------------------------------------------- bounds
MaxThreads == 2      \* largest thread count T of a pool
MaxIters == 3        \* largest iteration count passed to Run
MaxCalls == 2        \* Run/Destroy calls made in one behaviour
MaxFairIters == 1    \* largest iteration count where progress is checked
MaxPartThreads == 4  \* largest thread count for which Run's partition is computed
MaxPartIters == 12   \* largest iteration count for which it is computed
MaxCpus == 4         \* largest number of cpus in a frequency table
MaxFreq == 2         \* frequencies are 1..MaxFreq
MaxEnd == 3          \* largest `end` of an axis (twice that for Compute1D)
MaxStep == 2         \* largest `step` of an axis
MaxTile == 2         \* largest `tile_size` argument
CostProbe == 25      \* the non-negative `cost_per_item` tried
SizeBits == 12       \* size_t arithmetic is computed modulo 2^SizeBits

\* ------------------------------------------------------ program constants
kThreadPoolNone == 0
kThreadPoolInit == 1
kThreadPoolRun == 2
kThreadPoolShutdown == 4
kThreadPoolEventMask == 2147483647
kTileCountPerThread == 2
kMaxCostUsingSingleThread == 100

IntBits == 32        \* width of the event word (std::atomic<int>)

Clients == {0 - 1, 0 - 2}   \* two threads call the public API
Workers == 1..(MaxThreads - 1)
Procs == Clients \cup Workers
Slots == 0..((IF MaxThreads > MaxPartThreads THEN MaxThreads
               ELSE MaxPartThreads) - 1)
NoOne == 0

VARIABLES
  T,            \* threads_.size()
  event,        \* event_ (bit pattern of the 32-bit word)
  latch,        \* count_down_latch_ counter
  info,         \* thread_infos_: range_start, range_end, range_len, func
  run_mutex,    \* holder of run_mutex_ (NoOne when free)
  joinable,     \* threads_[i].joinable()
  cpc,          \* position of each client
  joinIdx,      \* loop index of a client's join loop in Destroy
  wpc,          \* position of each worker thread in ThreadLoop
  last_event,   \* ThreadLoop local `last_event`
  ev,           \* ThreadLoop local `event`
  trpc,         \* position of each thread in ThreadRun
  trlen,        \* ThreadRun local `range_len`
  trt,          \* ThreadRun local `t` (the peer being robbed)
  trfunc,       \* ThreadRun locals `func` / `other_func` (the body handle)
  tridx,        \* index handed to the body a thread is executing
  lifecycle,    \* history: created / initializing / initialized / destroyed
  calls,        \* history: Run/Destroy calls made so far
  curRun,       \* history: number of Run set-ups so far (the body handle)
  curN,         \* history: iterations of the latest Run
  called,       \* history: body invocations per index in the latest Run
  stray,        \* history: body invocations outside the latest Run's [0, N)
  cd,           \* history: count-downs per worker since the last Reset
  joins,        \* history: joins performed per worker thread
  repeat,       \* history: the Destroy a client is in found the pool destroyed
  D,            \* default_tile_count_
  ctor,         \* the constructor's arguments and the cores_to_use it chose
  compute       \* the Compute1D/2D/3D call made, and what it did

vars == <<T, event, latch, info, run_mutex, joinable, cpc,
          joinIdx, wpc, last_event, ev, trpc, trlen, trt, trfunc, tridx,
          lifecycle,
          calls, curRun, curN, called, stray, cd, joins, repeat, D, compute,
          ctor>>

poolVars == <<T, event, latch, info, run_mutex, joinable>>
clientVars == <<cpc, joinIdx>>
workerVars == <<wpc, last_event, ev>>
trVars == <<trpc, trlen, trt, trfunc, tridx>>
histVars == <<lifecycle, calls, curRun, curN, called, stray, cd, joins,
              repeat>>
plannerVars == <<D, compute, ctor>>

Min(a, b) == IF a < b THEN a ELSE b
Max(a, b) == IF a > b THEN a ELSE b

\* ------------------------------------------------------------ bit algebra
\* The event word is a C++ int: a 32-bit two's complement value.  A word is
\* split into its sign bit and its low IntBits - 1 bits.
LowMax == kThreadPoolEventMask          \* 2^31 - 1, all low bits set
SignBit(x) == x < 0
LowBits(x) == IF x < 0 THEN (x + LowMax) + 1 ELSE x
Word(sign, low) == IF sign THEN (low - LowMax) - 1 ELSE low

Bit(x, i) == (x \div (2 ^ i)) % 2

\* number of significant bits of a non-negative word
BitWidth(x) ==
  IF x >= 2 ^ (IntBits - 2) THEN IntBits - 1
  ELSE CHOOSE k \in 0..(IntBits - 2) : x < 2 ^ k /\ (k = 0 \/ x >= 2 ^ (k - 1))

\* bitwise or / and of two non-negative words of n bits, bit by bit over the
\* width w of the narrower word; above w the narrower word has only zeros
BitOrN(a, b, n) ==
  LET w == Min(BitWidth(a), BitWidth(b))
      acc[k \in 0..w] ==
        IF k = 0 THEN 0
        ELSE acc[k - 1]
             + (IF Bit(a, k - 1) = 1 \/ Bit(b, k - 1) = 1 THEN 2 ^ (k - 1)
                ELSE 0)
      high == IF w = n THEN 0 ELSE Max(a, b) - (Max(a, b) % (2 ^ w))
  IN acc[w] + high

BitAndN(a, b, n) ==
  LET w == Min(BitWidth(a), BitWidth(b))
      acc[k \in 0..w] ==
        IF k = 0 THEN 0
        ELSE acc[k - 1]
             + (IF Bit(a, k - 1) = 1 /\ Bit(b, k - 1) = 1 THEN 2 ^ (k - 1)
                ELSE 0)
  IN acc[w]

BitOr(a, b) ==
  Word(SignBit(a) \/ SignBit(b), BitOrN(LowBits(a), LowBits(b), IntBits - 1))
BitAnd(a, b) ==
  Word(SignBit(a) /\ SignBit(b), BitAndN(LowBits(a), LowBits(b), IntBits - 1))
BitNot(a) == (0 - 1) - a

\* kThreadPoolRun | ~(event_ | kThreadPoolEventMask)
RunEventSameWord(e) == kThreadPoolRun
RunEvent(e) == BitOr(kThreadPoolRun, BitNot(BitOr(e, kThreadPoolEventMask)))

\* event & kThreadPoolEventMask
Command(e) == BitAnd(e, kThreadPoolEventMask)

\* --------------------------------------------------------------- helpers
Tid(p) == IF p \in Clients THEN 0 ELSE p

ZeroInfo == [range_start |-> 0, range_end |-> 0, range_len |-> 0, func |-> 0]

\* The body invocation func(idx) through handle f: recorded per index.
Invoke(f, idx) ==
  IF f = curRun /\ idx \in 0..(curN - 1)
  THEN /\ called' = [called EXCEPT ![idx] = @ + 1]
       /\ stray' = stray
  ELSE /\ stray' = stray + 1
       /\ called' = called

\* no constructor arguments recorded
NoCtor == [freqs |-> <<>>, policy |-> "AFFINITY_NONE", hint |-> 0,
           cores |-> <<>>]

\* no Compute call made yet
UnitAxis == [start |-> 0, end |-> 1, step |-> 1, tile |-> 1]
NoCompute == [dim |-> 0, axes |-> <<UnitAxis, UnitAxis, UnitAxis>>, cost |-> 0,
              path |-> "none", iterations |-> 0, size |-> <<1, 1, 1>>,
              count |-> <<1, 1, 1>>]

\* ------------------------------------------------------------------ Init
\* no thread started, no call made
NoThreadStarted ==
  /\ event = kThreadPoolNone
  /\ latch = 0
  /\ info = [i \in Slots |-> ZeroInfo]
  /\ run_mutex = NoOne
  /\ joinable = [w \in Workers |-> FALSE]
  /\ cpc = [c \in Clients |-> "idle"]
  /\ joinIdx = [c \in Clients |-> 0]
  /\ wpc = [w \in Workers |-> "unborn"]
  /\ last_event = [w \in Workers |-> kThreadPoolNone]
  /\ ev = [w \in Workers |-> kThreadPoolNone]
  /\ trpc = [p \in Procs |-> "out"]
  /\ trlen = [p \in Procs |-> 0]
  /\ trt = [p \in Procs |-> 0]
  /\ trfunc = [p \in Procs |-> 0]
  /\ tridx = [p \in Procs |-> 0]
  /\ calls = 0
  /\ curRun = 0
  /\ curN = 0
  /\ called = [i \in 0..(MaxIters - 1) |-> 0]
  /\ stray = 0
  /\ cd = [w \in Workers |-> 0]
  /\ joins = [w \in Workers |-> 0]
  /\ repeat = [c \in Clients |-> FALSE]

Init ==
  /\ T \in 1..MaxThreads
  /\ NoThreadStarted
  /\ lifecycle = "created"
  /\ D = T
  /\ compute = NoCompute
  /\ ctor = NoCtor

\* ------------------------------------------------- countdown latch (4.1)
\* reset(n): the counter becomes n.
LatchReset(n) ==
  /\ latch' = n
  /\ cd' = [w \in Workers |-> 0]

\* count_down(): atomic decrement by worker w.
LatchCountDown(w) ==
  /\ latch' = latch - 1
  /\ cd' = [cd EXCEPT ![w] = @ + 1]

\* wait(): returns (after spinning or after being notified) once the
\* counter is zero.
LatchWaitReturns == latch = 0

\* ------------------------------------------------------- mutexes, condvar
\* run_lock(run_mutex_) in Run and in Destroy
RunLockAcquirableAlways(holder) == TRUE
RunLockAcquirable(holder) == holder = NoOne

\* event_cond_.notify_all(): every thread blocked in event_cond_.wait is
\* made runnable; it has to take event_mutex_ again before it returns.
NotifyNobody == wpc
NotifyAll == [w \in Workers |-> IF wpc[w] = "waiting" THEN "woken" ELSE wpc[w]]

\* --------------------------------------------------------- ThreadPool::Init
\* The harness calls Init at most once, on a freshly constructed pool, and
\* lets no other call overlap with it (Init takes no lock).
CallInit(c) ==
  /\ cpc[c] = "idle"
  /\ lifecycle = "created"
  /\ \A d \in Clients : cpc[d] = "idle"
  /\ IF T <= 1
     THEN /\ lifecycle' = "initialized"
          /\ cpc' = cpc
     ELSE /\ lifecycle' = "initializing"
          /\ cpc' = [cpc EXCEPT ![c] = "init_reset"]
  /\ UNCHANGED plannerVars
  /\ UNCHANGED <<poolVars, joinIdx, workerVars, trVars, calls, curRun,
                 curN, called, stray, cd, joins, repeat>>

\* count_down_latch_.Reset(threads_.size() - 1)
InitLatchCountShort(n) == n - 2
InitLatchCount(n) == n - 1

\* count_down_latch_.Reset(threads_.size() - 1); event_ = kThreadPoolInit;
InitReset(c) ==
  /\ cpc[c] = "init_reset"
  /\ LatchReset(InitLatchCount(T))
  /\ event' = kThreadPoolInit
  /\ cpc' = [cpc EXCEPT ![c] = "init_spawn"]
  /\ UNCHANGED plannerVars
  /\ UNCHANGED <<T, info, run_mutex, joinable, joinIdx,
                 workerVars, trVars, lifecycle, calls, curRun, curN, called,
                 stray, joins, repeat>>

\* threads_[i] = std::thread(&ThreadPool::ThreadLoop, this, i), i = 1..T-1.
\* A started thread is at the top of ThreadLoop with last_event = none.
InitSpawn(c) ==
  /\ cpc[c] = "init_spawn"
  /\ wpc' = [w \in Workers |-> IF w < T THEN "poll" ELSE wpc[w]]
  /\ last_event' = [w \in Workers |->
                      IF w < T THEN kThreadPoolNone ELSE last_event[w]]
  /\ joinable' = [w \in Workers |-> IF w < T THEN TRUE ELSE joinable[w]]
  /\ cpc' = [cpc EXCEPT ![c] = "init_wait"]
  /\ UNCHANGED plannerVars
  /\ UNCHANGED <<T, event, latch, info, run_mutex,
                 joinIdx, ev, trVars, histVars>>

\* count_down_latch_.Wait()
InitWait(c) ==
  /\ cpc[c] = "init_wait"
  /\ LatchWaitReturns
  /\ cpc' = [cpc EXCEPT ![c] = "init_ret"]
  /\ UNCHANGED plannerVars
  /\ UNCHANGED <<poolVars, joinIdx, workerVars, trVars, histVars>>

InitReturn(c) ==
  /\ cpc[c] = "init_ret"
  /\ cpc' = [cpc EXCEPT ![c] = "idle"]
  /\ lifecycle' = "initialized"
  /\ UNCHANGED plannerVars
  /\ UNCHANGED <<poolVars, joinIdx, workerVars, trVars, calls, curRun,
                 curN, called, stray, cd, joins, repeat>>

\* ---------------------------------------------------------- ThreadPool::Run
\* iters_per_thread + (i < remainder)
PartCountNoRemainder(n, i) == n \div T
PartCount(n, i) == (n \div T) + (IF i < n % T THEN 1 ELSE 0)

\* iters_offset before slot i is written, and the range_len written to slot i
RECURSIVE PartOffset(_, _)
PartLen(n, i) == Min(n, PartOffset(n, i) + PartCount(n, i)) - PartOffset(n, i)
PartOffset(n, i) ==
  IF i = 0 THEN 0 ELSE PartOffset(n, i - 1) + PartLen(n, i - 1)

PartEnd(n, i) == Min(n, PartOffset(n, i) + PartCount(n, i))

\* The worker records after the loop of Run over i = 0..T-1
Partition(n, f) ==
  [i \in Slots |->
     IF i < T
     THEN [range_start |-> PartOffset(n, i),
           range_end |-> PartEnd(n, i),
           range_len |-> PartEnd(n, i) - PartOffset(n, i),
           func |-> f]
     ELSE info[i]]

\* The harness starts a Run only on a pool whose Init has returned and on
\* which no Destroy has published the shutdown yet.
CallRun(c) ==
  /\ cpc[c] = "idle"
  /\ lifecycle = "initialized"
  /\ calls < MaxCalls
  /\ calls' = calls + 1
  /\ cpc' = [cpc EXCEPT ![c] = "run_lock"]
  /\ UNCHANGED plannerVars
  /\ UNCHANGED <<poolVars, joinIdx, workerVars, trVars, lifecycle, curRun,
                 curN, called, stray, cd, joins, repeat>>

\* std::unique_lock<std::mutex> run_lock(run_mutex_)
RunLock(c) ==
  /\ cpc[c] = "run_lock"
  /\ RunLockAcquirable(run_mutex)
  /\ run_mutex' = c
  /\ cpc' = [cpc EXCEPT ![c] = "run_setup"]
  /\ UNCHANGED plannerVars
  /\ UNCHANGED <<T, event, latch, info, joinable, joinIdx,
                 workerVars, trVars, histVars>>

\* the loop that writes range_start, range_end, range_len and func; the
\* argument `iterations` is drawn here, where it is first used
RunSetup(c) ==
  /\ cpc[c] = "run_setup"
  /\ \E n \in 0..MaxIters :
       /\ curN' = n
       /\ info' = Partition(n, curRun + 1)
  /\ curRun' = curRun + 1
  /\ called' = [i \in 0..(MaxIters - 1) |-> 0]
  /\ cpc' = [cpc EXCEPT ![c] = "run_reset"]
  /\ UNCHANGED plannerVars
  /\ UNCHANGED <<T, event, latch, run_mutex, joinable, joinIdx, workerVars,
                 trVars, lifecycle, calls, stray, cd, joins, repeat>>

\* count_down_latch_.Reset(thread_count - 1)
RunLatchCountNone(n) == 0
RunLatchCount(n) == n - 1

RunReset(c) ==
  /\ cpc[c] = "run_reset"
  /\ LatchReset(RunLatchCount(T))
  /\ cpc' = [cpc EXCEPT ![c] = "run_publish"]
  /\ UNCHANGED plannerVars
  /\ UNCHANGED <<T, event, info, run_mutex, joinable,
                 joinIdx, workerVars, trVars, lifecycle, calls, curRun, curN,
                 called, stray, joins, repeat>>

\* { lock(event_mutex_); event_.store(RUN | generation); notify_all(); }
\* followed by the entry of ThreadRun(0): func_ptr = thread_info.func
RunPublish(c) ==
  /\ cpc[c] = "run_publish"
  /\ \E word \in {RunEvent(event)} : event' = word
  /\ wpc' = NotifyAll
  /\ cpc' = [cpc EXCEPT ![c] = "thread_run"]
  /\ trpc' = [trpc EXCEPT ![c] = "own_load"]
  /\ trfunc' = [trfunc EXCEPT ![c] = info[0].func]
  /\ UNCHANGED plannerVars
  /\ UNCHANGED <<T, latch, info, run_mutex, joinable,
                 joinIdx, last_event, ev, trlen, trt, tridx, histVars>>

\* count_down_latch_.Wait()
RunWait(c) ==
  /\ cpc[c] = "run_wait"
  /\ LatchWaitReturns
  /\ cpc' = [cpc EXCEPT ![c] = "run_ret"]
  /\ UNCHANGED plannerVars
  /\ UNCHANGED <<poolVars, joinIdx, workerVars, trVars, histVars>>

\* return: run_lock is released
RunReturn(c) ==
  /\ cpc[c] = "run_ret"
  /\ run_mutex' = NoOne
  /\ cpc' = [cpc EXCEPT ![c] = "idle"]
  /\ UNCHANGED plannerVars
  /\ UNCHANGED <<T, event, latch, info, joinable, joinIdx,
                 workerVars, trVars, histVars>>

\* ------------------------------------------------------ ThreadPool::Destroy
\* if (threads_.size() <= 1) return;
CallDestroy(c) ==
  /\ cpc[c] = "idle"
  /\ lifecycle # "initializing"
  /\ calls < MaxCalls
  /\ calls' = calls + 1
  /\ cpc' = [cpc EXCEPT ![c] = IF T <= 1 THEN "idle" ELSE "des_lock"]
  /\ UNCHANGED plannerVars
  /\ UNCHANGED <<poolVars, joinIdx, workerVars, trVars, lifecycle,
                 curRun, curN, called, stray, cd, joins, repeat>>

\* std::unique_lock<std::mutex> run_lock(run_mutex_)
DestroyLock(c) ==
  /\ cpc[c] = "des_lock"
  /\ RunLockAcquirable(run_mutex)
  /\ run_mutex' = c
  /\ cpc' = [cpc EXCEPT ![c] = "des_wait"]
  /\ repeat' = [repeat EXCEPT ![c] = (lifecycle = "destroyed")]
  /\ UNCHANGED plannerVars
  /\ UNCHANGED <<T, event, latch, info, joinable, joinIdx, workerVars,
                 trVars, lifecycle, calls, curRun, curN, called, stray, cd,
                 joins>>

\* count_down_latch_.Wait()
DestroyWait(c) ==
  /\ cpc[c] = "des_wait"
  /\ LatchWaitReturns
  /\ cpc' = [cpc EXCEPT ![c] = "des_publish"]
  /\ UNCHANGED plannerVars
  /\ UNCHANGED <<poolVars, joinIdx, workerVars, trVars, histVars>>

\* { lock(event_mutex_); event_.store(kThreadPoolShutdown); notify_all(); }
DestroyPublish(c) ==
  /\ cpc[c] = "des_publish"
  /\ event' = kThreadPoolShutdown
  /\ wpc' = NotifyAll
  /\ lifecycle' = "destroyed"
  /\ joinIdx' = [joinIdx EXCEPT ![c] = 1]
  /\ cpc' = [cpc EXCEPT ![c] = "des_join"]
  /\ UNCHANGED plannerVars
  /\ UNCHANGED <<T, latch, info, run_mutex, joinable,
                 last_event, ev, trVars, calls, curRun, curN, called, stray,
                 cd, joins, repeat>>

\* threads_[i].join() blocks until thread i has returned from ThreadLoop
JoinReturnsAtOnce(w) == TRUE
JoinReturns(w) == wpc[w] = "exited"

\* if (threads_[i].joinable())
ShouldJoinAlways(i) == TRUE
ShouldJoin(i) == joinable[i]

\* one round of: if (threads_[i].joinable()) threads_[i].join(); else LOG
DestroyJoin(c) ==
  /\ cpc[c] = "des_join"
  /\ joinIdx[c] < T
  /\ LET i == joinIdx[c] IN
       IF ShouldJoin(i)
       THEN /\ JoinReturns(i)
            /\ joinable' = [joinable EXCEPT ![i] = FALSE]
            /\ joins' = [joins EXCEPT ![i] = @ + 1]
       ELSE /\ joinable' = joinable
            /\ joins' = joins
  /\ joinIdx' = [joinIdx EXCEPT ![c] = @ + 1]
  /\ UNCHANGED plannerVars
  /\ UNCHANGED <<T, event, latch, info, run_mutex, cpc,
                 workerVars, trVars, lifecycle, calls, curRun, curN, called,
                 stray, cd, repeat>>

\* the join loop is over; return: run_lock is released
DestroyReturn(c) ==
  /\ cpc[c] = "des_join"
  /\ joinIdx[c] >= T
  /\ run_mutex' = NoOne
  /\ joinIdx' = [joinIdx EXCEPT ![c] = 0]
  /\ repeat' = [repeat EXCEPT ![c] = FALSE]
  /\ cpc' = [cpc EXCEPT ![c] = "idle"]
  /\ UNCHANGED plannerVars
  /\ UNCHANGED <<T, event, latch, info, joinable, workerVars, trVars,
                 lifecycle, calls, curRun, curN, called, stray, cd, joins>>

\* --------------------------------------------------- ThreadPool::ThreadLoop
\* Every critical section of event_mutex_ (the publications in Run and
\* Destroy, and the test-and-wait of ThreadLoop) is one step: they exclude
\* each other, and the lock-free loads of event_ beside them only read.

\* SpinWait(event_, last_event, ...) has returned (the word changed or the
\* budget ran out); if (event_.load() == last_event) { lock(event_mutex_);
\* while (event_ == last_event) event_cond_.wait(m); }.  A thread that finds
\* the word unchanged under the mutex releases the mutex and blocks.
MustWaitNever(e, last) == FALSE
MustWait(e, last) == e = last

WorkerPoll(w) ==
  /\ wpc[w] = "poll"
  /\ wpc' = [wpc EXCEPT ![w] = IF MustWait(event, last_event[w])
                                THEN "waiting" ELSE "dispatch"]
  /\ UNCHANGED plannerVars
  /\ UNCHANGED <<poolVars, clientVars, last_event, ev, trVars, histVars>>

\* event_cond_.wait returns: the mutex is taken again and the loop condition
\* event_ == last_event is tested again
WorkerRecheck(w) ==
  /\ wpc[w] = "woken"
  /\ wpc' = [wpc EXCEPT ![w] = IF MustWait(event, last_event[w])
                                THEN "waiting" ELSE "dispatch"]
  /\ UNCHANGED plannerVars
  /\ UNCHANGED <<poolVars, clientVars, last_event, ev, trVars, histVars>>

\* a condition variable may wake a waiter without a notification
SpuriousWake(w) ==
  /\ wpc[w] = "waiting"
  /\ wpc' = [wpc EXCEPT ![w] = "woken"]
  /\ UNCHANGED plannerVars
  /\ UNCHANGED <<poolVars, clientVars, last_event, ev, trVars, histVars>>

\* last_event = event;
NextLastEventKept(old, e) == old
NextLastEvent(old, e) == e

\* switch (event & kThreadPoolEventMask)
DispatchTargetRunAsInit(cmd) ==
  IF cmd = kThreadPoolInit \/ cmd = kThreadPoolRun THEN "countdown"
  ELSE IF cmd = kThreadPoolShutdown THEN "exited"
  ELSE "poll"
DispatchTarget(cmd) ==
  IF cmd = kThreadPoolInit THEN "countdown"
  ELSE IF cmd = kThreadPoolRun THEN "thread_run"
  ELSE IF cmd = kThreadPoolShutdown THEN "exited"
  ELSE "poll"

\* int event = event_.load(); switch (...); for RUN the entry of ThreadRun
\* (func_ptr = thread_info.func); for the default case last_event = event
WorkerDispatch(w) ==
  /\ wpc[w] = "dispatch"
  /\ ev' = [ev EXCEPT ![w] = event]
  /\ \E target \in {DispatchTarget(Command(event))} :
       /\ wpc' = [wpc EXCEPT ![w] = target]
       /\ trpc' = [trpc EXCEPT ![w] = IF target = "thread_run" THEN "own_load"
                                       ELSE @]
       /\ trfunc' = [trfunc EXCEPT ![w] = IF target = "thread_run"
                                           THEN info[w].func ELSE @]
       /\ last_event' = [last_event EXCEPT ![w] =
                           IF target = "poll" THEN NextLastEvent(@, event)
                           ELSE @]
  /\ UNCHANGED plannerVars
  /\ UNCHANGED <<poolVars, clientVars, trlen, trt, tridx, histVars>>

\* count_down_latch_.CountDown(); break; last_event = event;
WorkerCountDown(w) ==
  /\ wpc[w] = "countdown"
  /\ LatchCountDown(w)
  /\ last_event' = [last_event EXCEPT ![w] = NextLastEvent(@, ev[w])]
  /\ ev' = [ev EXCEPT ![w] = kThreadPoolNone]
  /\ wpc' = [wpc EXCEPT ![w] = "poll"]
  /\ UNCHANGED plannerVars
  /\ UNCHANGED <<T, event, info, run_mutex, joinable, clientVars,
                 trVars, lifecycle, calls, curRun, curN, called, stray,
                 joins, repeat>>

\* ---------------------------------------------------- ThreadPool::ThreadRun
\* range_len.compare_exchange_strong(expected, expected - 1) succeeds when
\* the counter still holds the value read before
CasSucceedsBlindly(current, expected) == TRUE
CasSucceeds(current, expected) == current = expected

\* the loop condition (range_len = ...range_len) > 0 of both loops
ClaimableAlways(len) == TRUE
Claimable(len) == len > 0

\* the index a thief hands to the body: other_func->operator()(tail - 1)
TailIndexOffByOne(tail) == tail
TailIndex(tail) == tail - 1

\* the return of ThreadRun: a client goes on to the latch wait of Run, a
\* worker to the count-down of ThreadLoop
Return(p) ==
  /\ trpc' = [trpc EXCEPT ![p] = "out"]
  /\ trt' = [trt EXCEPT ![p] = 0]
  /\ trfunc' = [trfunc EXCEPT ![p] = 0]
  /\ IF p \in Clients
     THEN /\ cpc' = [cpc EXCEPT ![p] = "run_wait"]
          /\ wpc' = wpc
     ELSE /\ wpc' = [wpc EXCEPT ![p] = "countdown"]
          /\ cpc' = cpc

\* for (t = (tid + 1) % thread_count; t != tid; t = (t + 1) % thread_count):
\* enter the loop body for peer t, or leave the loop and return
StealFrom(p, t) ==
  IF t = Tid(p)
  THEN Return(p)
  ELSE /\ trpc' = [trpc EXCEPT ![p] = "steal_load"]
       /\ trt' = [trt EXCEPT ![p] = t]
       /\ trfunc' = [trfunc EXCEPT ![p] = info[t].func]
       /\ UNCHANGED <<cpc, wpc>>

\* while ((range_len = thread_info.range_len) > 0), entered at the start of
\* ThreadRun or when the body called in the previous round returns
TROwnLoad(p) ==
  /\ trpc[p] \in {"own_load", "own_body"}
  /\ LET len == info[Tid(p)].range_len IN
       /\ trlen' = [trlen EXCEPT ![p] = len]
       /\ IF Claimable(len)
          THEN /\ trpc' = [trpc EXCEPT ![p] = "own_cas"]
               /\ UNCHANGED <<trt, trfunc, cpc, wpc>>
          ELSE StealFrom(p, (Tid(p) + 1) % T)
  /\ tridx' = [tridx EXCEPT ![p] = 0]
  /\ UNCHANGED plannerVars
  /\ UNCHANGED <<poolVars, joinIdx, last_event, ev, histVars>>

\* if (thread_info.range_len.compare_exchange_strong(range_len, range_len-1))
TROwnCas(p) ==
  /\ trpc[p] = "own_cas"
  /\ LET cur == info[Tid(p)].range_len IN
       IF CasSucceeds(cur, trlen[p])
       THEN /\ info' = [info EXCEPT ![Tid(p)].range_len = trlen[p] - 1]
            /\ trpc' = [trpc EXCEPT ![p] = "own_exec"]
            /\ trlen' = [trlen EXCEPT ![p] = 0]
       ELSE /\ info' = info
            /\ trpc' = [trpc EXCEPT ![p] = "own_load"]
            /\ trlen' = [trlen EXCEPT ![p] = 0]
  /\ UNCHANGED plannerVars
  /\ UNCHANGED <<T, event, latch, run_mutex, joinable,
                 clientVars, workerVars, trt, trfunc, tridx, histVars>>

\* func->operator()(thread_info.range_start++): the body is entered
TROwnExec(p) ==
  /\ trpc[p] = "own_exec"
  /\ LET idx == info[Tid(p)].range_start IN
       /\ info' = [info EXCEPT ![Tid(p)].range_start = idx + 1]
       /\ tridx' = [tridx EXCEPT ![p] = idx]
       /\ Invoke(trfunc[p], idx)
  /\ trpc' = [trpc EXCEPT ![p] = "own_body"]
  /\ UNCHANGED plannerVars
  /\ UNCHANGED <<T, event, latch, run_mutex, joinable,
                 clientVars, workerVars, trlen, trt, trfunc, lifecycle, calls,
                 curRun, curN, cd, joins, repeat>>

\* while ((range_len = other_thread_info.range_len) > 0), entered for a new
\* peer or when the body called in the previous round returns
TRStealLoad(p) ==
  /\ trpc[p] \in {"steal_load", "steal_body"}
  /\ LET len == info[trt[p]].range_len IN
       /\ trlen' = [trlen EXCEPT ![p] = len]
       /\ IF Claimable(len)
          THEN /\ trpc' = [trpc EXCEPT ![p] = "steal_cas"]
               /\ UNCHANGED <<trt, trfunc, cpc, wpc>>
          ELSE StealFrom(p, (trt[p] + 1) % T)
  /\ tridx' = [tridx EXCEPT ![p] = 0]
  /\ UNCHANGED plannerVars
  /\ UNCHANGED <<poolVars, joinIdx, last_event, ev, histVars>>

\* if (other_thread_info.range_len.compare_exchange_strong(range_len, ...))
TRStealCas(p) ==
  /\ trpc[p] = "steal_cas"
  /\ LET cur == info[trt[p]].range_len IN
       IF CasSucceeds(cur, trlen[p])
       THEN /\ info' = [info EXCEPT ![trt[p]].range_len = trlen[p] - 1]
            /\ trpc' = [trpc EXCEPT ![p] = "steal_dec"]
            /\ trlen' = [trlen EXCEPT ![p] = 0]
       ELSE /\ info' = info
            /\ trpc' = [trpc EXCEPT ![p] = "steal_load"]
            /\ trlen' = [trlen EXCEPT ![p] = 0]
  /\ UNCHANGED plannerVars
  /\ UNCHANGED <<T, event, latch, run_mutex, joinable,
                 clientVars, workerVars, trt, trfunc, tridx, histVars>>

\* size_t tail = other_thread_info.range_end--; other_func->operator()(tail-1)
TRStealDec(p) ==
  /\ trpc[p] = "steal_dec"
  /\ LET tail == info[trt[p]].range_end IN
       /\ info' = [info EXCEPT ![trt[p]].range_end = tail - 1]
       /\ tridx' = [tridx EXCEPT ![p] = TailIndex(tail)]
       /\ Invoke(trfunc[p], TailIndex(tail))
  /\ trpc' = [trpc EXCEPT ![p] = "steal_body"]
  /\ UNCHANGED plannerVars
  /\ UNCHANGED <<T, event, latch, run_mutex, joinable,
                 clientVars, workerVars, trlen, trt, trfunc, lifecycle, calls,
                 curRun, curN, cd, joins, repeat>>

\* ------------------------------------------------------------ tile planner
\* size_t is 64 bits wide; the model computes size_t arithmetic modulo
\* 2^SizeBits.  The arguments are small, so the only operation that wraps is
\* end - start - 1 on an axis with start >= end.
SizeMod == 2 ^ SizeBits
Sz(x) == x % SizeMod
Mul(a, b) == Sz(a * b)

\* RoundUp(i, factor) of mace/utils/math.h, used for the tile counts:
\* ceil(i / factor)
RoundUp(i, f) == (i + f - 1) \div f

\* size_t items = 1 + (end - start - 1) / step
ItemsIgnoringStep(ax) == Sz(1 + Sz(ax.end - ax.start - 1))
Items(ax) == Sz(1 + (Sz(ax.end - ax.start - 1) \div ax.step))

\* threads_.size() <= 1 || (cost_per_item >= 0
\*     && items * cost_per_item < kMaxCostUsingSingleThread)
SingleThreaded(items, cost) ==
  T <= 1 \/ (cost >= 0 /\ Mul(items, cost) < kMaxCostUsingSingleThread)

\* what a call did: it returned at the guard ("return"), called func once
\* with the full ranges ("inline"), called Run(tile closure, iterations)
\* with the tile sizes and tile counts given ("run"), or divided by zero
\* ("undefined")
Outcome(dim, axes, cost, path, iterations, size, count) ==
  [dim |-> dim, axes |-> axes, cost |-> cost, path |-> path,
   iterations |-> iterations, size |-> size, count |-> count]

Planned(dim, axes, cost, size) ==
  IF \E i \in 1..dim : size[i] = 0
  THEN Outcome(dim, axes, cost, "undefined", 0, size, <<1, 1, 1>>)
  ELSE LET count == [i \in 1..3 |->
                       IF i <= dim THEN RoundUp(Items(axes[i]), size[i])
                       ELSE 1]
       IN Outcome(dim, axes, cost, "run",
                  Mul(count[1], Mul(count[2], count[3])), size, count)

\* if (start >= end) return;
Guard1D(axes) == axes[1].start >= axes[1].end

\* tile_size = max(1, items / default_tile_count_) when tile_size == 0
Size1D(axes) ==
  IF axes[1].tile = 0
  THEN <<Max(1, Items(axes[1]) \div D), 1, 1>>
  ELSE <<axes[1].tile, 1, 1>>

Compute1D(ax, cost) ==
  LET axes == <<ax, UnitAxis, UnitAxis>> IN
    IF Guard1D(axes)
    THEN Outcome(1, axes, cost, "return", 0, <<1, 1, 1>>, <<1, 1, 1>>)
    ELSE IF SingleThreaded(Items(ax), cost)
    THEN Outcome(1, axes, cost, "inline", 0, <<1, 1, 1>>, <<1, 1, 1>>)
    ELSE Planned(1, axes, cost, Size1D(axes))

\* if (start0 >= end0 || start1 >= end1) return;
Guard2D(axes) ==
  axes[1].start >= axes[1].end \/ axes[2].start >= axes[2].end

\* the default sizing of Compute2D when tile_size0 == 0 || tile_size1 == 0
Size2D(axes) ==
  LET items0 == Items(axes[1])
      items1 == Items(axes[2])
  IN IF axes[1].tile = 0 \/ axes[2].tile = 0
     THEN IF items0 >= D
          THEN <<items0 \div D, items1, 1>>
          ELSE <<1, Max(1, Mul(items1, items0) \div D), 1>>
     ELSE <<axes[1].tile, axes[2].tile, 1>>

Compute2D(ax0, ax1, cost) ==
  LET axes == <<ax0, ax1, UnitAxis>> IN
    IF Guard2D(axes)
    THEN Outcome(2, axes, cost, "return", 0, <<1, 1, 1>>, <<1, 1, 1>>)
    ELSE IF SingleThreaded(Mul(Items(ax0), Items(ax1)), cost)
    THEN Outcome(2, axes, cost, "inline", 0, <<1, 1, 1>>, <<1, 1, 1>>)
    ELSE Planned(2, axes, cost, Size2D(axes))

\* a guard that tests every axis against its own end
Guard3DAllAxes(axes) ==
  \/ axes[1].start >= axes[1].end
  \/ axes[2].start >= axes[2].end
  \/ axes[3].start >= axes[3].end

\* if (start0 >= end0 || start1 >= end1 || start2 >= end1) return;
Guard3D(axes) ==
  \/ axes[1].start >= axes[1].end
  \/ axes[2].start >= axes[2].end
  \/ axes[3].start >= axes[2].end

\* the default sizing of Compute3D when a tile size is 0
Size3D(axes) ==
  LET items0 == Items(axes[1])
      items1 == Items(axes[2])
      items2 == Items(axes[3])
      items01 == Mul(items1, items0)
  IN IF axes[1].tile = 0 \/ axes[2].tile = 0 \/ axes[3].tile = 0
     THEN IF items0 >= D
          THEN <<items0 \div D, items1, items2>>
          ELSE IF items01 >= D
          THEN <<1, items01 \div D, items2>>
          ELSE <<1, 1, Max(1, Mul(items01, items2) \div D)>>
     ELSE <<axes[1].tile, axes[2].tile, axes[3].tile>>

Compute3D(ax0, ax1, ax2, cost) ==
  LET axes == <<ax0, ax1, ax2>> IN
    IF Guard3D(axes)
    THEN Outcome(3, axes, cost, "return", 0, <<1, 1, 1>>, <<1, 1, 1>>)
    ELSE IF SingleThreaded(Mul(Mul(Items(ax0), Items(ax1)), Items(ax2)), cost)
    THEN Outcome(3, axes, cost, "inline", 0, <<1, 1, 1>>, <<1, 1, 1>>)
    ELSE Planned(3, axes, cost, Size3D(axes))

\* The closure passed to Run: the per-axis tile indices of tile_idx
\* (tile_idx0 = tile_idx / tile_count12, ...), as <<idx0, idx1, idx2>>
TileIdx(r, tile_idx) ==
  LET count12 == Mul(r.count[2], r.count[3])
      idx0 == tile_idx \div count12
      idx12 == Sz(tile_idx - Mul(idx0, count12))
      idx1 == idx12 \div r.count[3]
      idx2 == Sz(idx12 - Mul(idx1, r.count[3]))
  IN <<idx0, idx1, idx2>>

\* tile_start = start + tile_idx_i * step_tile_size;
\* tile_end = std::min(end, tile_start + step_tile_size)
TileStart(r, i, idx) ==
  Sz(r.axes[i].start + Mul(idx, Mul(r.axes[i].step, r.size[i])))
TileEnd(r, i, idx) ==
  Min(r.axes[i].end, Sz(TileStart(r, i, idx) + Mul(r.axes[i].step, r.size[i])))

\* the (start, end) func receives on axis i from the call for tile_idx
TileRange(r, i, tile_idx) ==
  <<TileStart(r, i, TileIdx(r, tile_idx)[i]),
    TileEnd(r, i, TileIdx(r, tile_idx)[i])>>

\* The calls of func a Compute call leads to, as the <<start, end>> pairs of
\* the three axes: none, one with the caller's ranges, or one per tile index
\* (Run hands every index of [0, iterations) to the closure once)
FuncCalls(r) ==
  IF r.path = "inline"
  THEN <<[i \in 1..3 |-> <<r.axes[i].start, r.axes[i].end>>]>>
  ELSE IF r.path = "run"
  THEN [k \in 1..r.iterations |-> [i \in 1..3 |-> TileRange(r, i, k - 1)]]
  ELSE <<>>

\* the call compute_2d(items0 = 3, items1 = 100, tile sizes 0,
\* cost_per_item < 0) on a pool of 4 threads with D = 8
ExamplePool == [T |-> 4, D |-> 8]
ExampleAxes ==
  <<[start |-> 0, end |-> 3, step |-> 1, tile |-> 0],
    [start |-> 0, end |-> 100, step |-> 1, tile |-> 0]>>

\* the arguments tried
Axes(maxEnd) ==
  [start : 0..1, end : 0..maxEnd, step : 1..MaxStep, tile : 0..MaxTile]
Costs == {0 - 1, CostProbe}

\* A pool whose Init has returned and whose workers have gone to sleep,
\* with either default tile count the constructor can choose
InitializedPool ==
  /\ ctor = NoCtor
  /\ event = (IF T <= 1 THEN kThreadPoolNone ELSE kThreadPoolInit)
  /\ latch = 0
  /\ info = [i \in Slots |-> ZeroInfo]
  /\ run_mutex = NoOne
  /\ joinable = [w \in Workers |-> w < T]
  /\ cpc = [c \in Clients |-> "idle"]
  /\ joinIdx = [c \in Clients |-> 0]
  /\ wpc = [w \in Workers |-> IF w < T THEN "waiting" ELSE "unborn"]
  /\ last_event = [w \in Workers |->
                     IF w < T THEN kThreadPoolInit ELSE kThreadPoolNone]
  /\ ev = [w \in Workers |-> kThreadPoolNone]
  /\ trpc = [p \in Procs |-> "out"]
  /\ trlen = [p \in Procs |-> 0]
  /\ trt = [p \in Procs |-> 0]
  /\ trfunc = [p \in Procs |-> 0]
  /\ tridx = [p \in Procs |-> 0]
  /\ lifecycle = "initialized"
  /\ calls = 0
  /\ curRun = 0
  /\ curN = 0
  /\ called = [i \in 0..(MaxIters - 1) |-> 0]
  /\ stray = 0
  /\ cd = [w \in Workers |-> IF w < T THEN 1 ELSE 0]
  /\ joins = [w \in Workers |-> 0]
  /\ repeat = [c \in Clients |-> FALSE]

ComputeInit ==
  /\ T \in (1..MaxThreads) \cup {ExamplePool.T}
  /\ D \in {T, T * kTileCountPerThread}
  /\ compute = NoCompute
  /\ InitializedPool

poolState == <<poolVars, clientVars, workerVars, trVars, histVars, D, ctor>>

CallCompute1D ==
  /\ compute.dim = 0
  /\ \E ax \in Axes(2 * MaxEnd), cost \in Costs :
       compute' = Compute1D(ax, cost)
  /\ UNCHANGED poolState

CallCompute2D ==
  /\ compute.dim = 0
  /\ \E ax0 \in Axes(MaxEnd), ax1 \in Axes(MaxEnd), cost \in Costs :
       compute' = Compute2D(ax0, ax1, cost)
  /\ UNCHANGED poolState

\* (the three axes are given the same step value, which keeps the number of
\* calls tried small)
CallCompute3D ==
  /\ compute.dim = 0
  /\ \E ax0 \in Axes(MaxEnd - 1), ax1 \in Axes(MaxEnd - 1),
        ax2 \in Axes(MaxEnd - 1), cost \in Costs :
       /\ ax1.step = ax0.step
       /\ ax2.step = ax0.step
       /\ compute' = Compute3D(ax0, ax1, ax2, cost)
  /\ UNCHANGED poolState

CallCompute2DExample ==
  /\ compute.dim = 0
  /\ T = ExamplePool.T
  /\ D = ExamplePool.D
  /\ compute' = Compute2D(ExampleAxes[1], ExampleAxes[2], 0 - 1)
  /\ UNCHANGED poolState

ComputeNext ==
  CallCompute1D \/ CallCompute2D \/ CallCompute2DExample \/ CallCompute3D

ComputeSpec == ComputeInit /\ [][ComputeNext]_vars

\* -------------------------------------------------- the partition of Run
\* The loop of Run that writes the worker records (lines 175-183), applied
\* by successive Run calls to pools of up to MaxPartThreads threads; the rest
\* of each Run is left out, the loop overwrites all T records.
PartitionInit ==
  /\ T \in 1..MaxPartThreads
  /\ D = T
  /\ compute = NoCompute
  /\ InitializedPool

RunPartition ==
  /\ curRun < MaxCalls
  /\ \E n \in 0..MaxPartIters :
       /\ curN' = n
       /\ info' = Partition(n, curRun + 1)
  /\ curRun' = curRun + 1
  /\ UNCHANGED plannerVars
  /\ UNCHANGED <<T, event, latch, run_mutex, joinable, clientVars, workerVars,
                 trVars, lifecycle, calls, called, stray, cd, joins, repeat>>

PartitionSpec == PartitionInit /\ [][RunPartition]_vars

\* ---------------------------------------------- GetCPUCoresToUse, ThreadPool
\* cpu_max_freqs is a sequence of frequencies, cpu i at position i + 1; core
\* ids count from 0 as in the code.
Policies == {"AFFINITY_NONE", "AFFINITY_POWER_SAVE", "AFFINITY_LITTLE_ONLY",
             "AFFINITY_HIGH_PERFORMANCE", "AFFINITY_BIG_ONLY"}
FreqTables == UNION {[1..n -> 1..MaxFreq] : n \in 0..MaxCpus}

Arrangements ==
  [n \in 0..MaxCpus |->
     {p \in [1..n -> 1..n] : \A i \in 1..n, j \in 1..n : i # j => p[i] # p[j]}]

\* The orders std::sort may leave cpu_freq in: every arrangement of the cpus
\* that the comparator allows (cpus of equal frequency in any order).  The
\* arrangement lists positions of cpu_max_freqs.
SortAscending(policy) ==
  policy \in {"AFFINITY_POWER_SAVE", "AFFINITY_LITTLE_ONLY"}
SortOutcomes(freqs, policy) ==
  {p \in Arrangements[Len(freqs)] :
     \A i \in 1..Len(freqs), j \in 1..Len(freqs) :
       i < j => IF SortAscending(policy) THEN freqs[p[i]] <= freqs[p[j]]
                ELSE freqs[p[i]] >= freqs[p[j]]}

\* the cpus that head the sorted list with the frequency of its first entry
LeadingEqual(freqs, order) ==
  Cardinality({i \in 1..Len(freqs) :
                 \A k \in 1..i : freqs[order[k]] = freqs[order[1]]})

\* GetCPUCoresToUse(cpu_max_freqs, policy, thread_count_hint, &cores): the
\* vector `cores` it leaves, for the order the sort produced
GetCPUCoresToUse(freqs, policy, hint, order) ==
  LET cpu_count == Len(freqs)
      thread_count == IF hint = 0 \/ hint > cpu_count THEN cpu_count ELSE hint
      cores_to_use ==
        IF policy \in {"AFFINITY_BIG_ONLY", "AFFINITY_LITTLE_ONLY"}
        THEN LeadingEqual(freqs, order)
        ELSE thread_count
  IN IF cpu_count = 0 \/ policy = "AFFINITY_NONE" THEN <<>>
     ELSE [i \in 1..cores_to_use |-> order[i] - 1]

\* thread_count = max(1, min(hint, cpu_max_freqs.size())), cut to
\* cores_to_use.size() when cores were chosen
ThreadCountUncut(freqs, hint, cores) == Max(1, Min(hint, Len(freqs)))
ThreadCount(freqs, hint, cores) ==
  LET thread_count == Max(1, Min(hint, Len(freqs)))
  IN IF cores # <<>> /\ thread_count > Len(cores) THEN Len(cores)
     ELSE thread_count

\* default_tile_count_: thread_count, or thread_count * kTileCountPerThread
\* when cores_to_use.size() >= 2 &&
\* cpu_max_freqs[0] != cpu_max_freqs[cores_to_use.back()]
DefaultTileCountFirstChosen(freqs, cores, thread_count) ==
  IF Len(cores) >= 2 /\ freqs[cores[1] + 1] # freqs[cores[Len(cores)] + 1]
  THEN thread_count * kTileCountPerThread
  ELSE thread_count
DefaultTileCount(freqs, cores, thread_count) ==
  IF Len(cores) >= 2 /\ freqs[1] # freqs[cores[Len(cores)] + 1]
  THEN thread_count * kTileCountPerThread
  ELSE thread_count

\* before the constructor runs: its arguments are chosen
CtorInit ==
  /\ T = 0
  /\ D = 0
  /\ NoThreadStarted
  /\ lifecycle = "unbuilt"
  /\ compute = NoCompute
  /\ ctor \in [freqs : FreqTables, policy : Policies, hint : 0..(MaxCpus + 1),
               cores : {<<>>}]

\* ThreadPool::ThreadPool(thread_count_hint, policy)
Construct ==
  /\ lifecycle = "unbuilt"
  /\ \E order \in SortOutcomes(ctor.freqs, ctor.policy) :
       \E cores \in {GetCPUCoresToUse(ctor.freqs, ctor.policy,
                                      Max(1, Min(ctor.hint, Len(ctor.freqs))),
                                      order)} :
         /\ ctor' = [ctor EXCEPT !.cores = cores]
         /\ T' = ThreadCount(ctor.freqs, ctor.hint, cores)
         /\ D' = DefaultTileCount(ctor.freqs, cores,
                                 ThreadCount(ctor.freqs, ctor.hint, cores))
  /\ lifecycle' = "created"
  /\ UNCHANGED <<event, latch, info, run_mutex, joinable, clientVars,
                 workerVars, trVars, calls, curRun, curN, called, stray, cd,
                 joins, repeat, compute>>

CtorSpec == CtorInit /\ [][Construct]_vars

\* ------------------------------------------------------------ specification
ClientStep(c) ==
  \/ CallInit(c) \/ InitReset(c) \/ InitSpawn(c) \/ InitWait(c)
  \/ InitReturn(c)
  \/ CallRun(c) \/ RunLock(c) \/ RunSetup(c) \/ RunReset(c) \/ RunPublish(c)
  \/ RunWait(c) \/ RunReturn(c)
  \/ CallDestroy(c) \/ DestroyLock(c) \/ DestroyWait(c) \/ DestroyPublish(c)
  \/ DestroyJoin(c) \/ DestroyReturn(c)

WorkerStep(w) ==
  \/ WorkerPoll(w) \/ WorkerRecheck(w) \/ SpuriousWake(w)
  \/ WorkerDispatch(w) \/ WorkerCountDown(w)

ThreadRunStep(p) ==
  \/ TROwnLoad(p) \/ TROwnCas(p) \/ TROwnExec(p)
  \/ TRStealLoad(p) \/ TRStealCas(p) \/ TRStealDec(p)

Next ==
  \/ \E c \in Clients : ClientStep(c)
  \/ \E w \in Workers : WorkerStep(w)
  \/ \E p \in Procs : ThreadRunStep(p)

Spec == Init /\ [][Next]_vars

\* The same machine with the scheduling the claims about progress assume:
\* every thread that can take a step of the code eventually takes one.  The
\* public calls themselves (CallInit, CallRun, CallDestroy) need not be made,
\* and a condition variable need not wake a waiter spuriously.
Fairness ==
  /\ \A c \in Clients :
       /\ WF_vars(InitReset(c)) /\ WF_vars(InitSpawn(c))
       /\ WF_vars(InitWait(c)) /\ WF_vars(InitReturn(c))
       /\ WF_vars(RunLock(c)) /\ WF_vars(RunSetup(c)) /\ WF_vars(RunReset(c))
       /\ WF_vars(RunPublish(c)) /\ WF_vars(RunWait(c))
       /\ WF_vars(RunReturn(c))
       /\ WF_vars(DestroyLock(c)) /\ WF_vars(DestroyWait(c))
       /\ WF_vars(DestroyPublish(c)) /\ WF_vars(DestroyJoin(c))
       /\ WF_vars(DestroyReturn(c))
  /\ \A w \in Workers :
       /\ WF_vars(WorkerPoll(w)) /\ WF_vars(WorkerRecheck(w))
       /\ WF_vars(WorkerDispatch(w)) /\ WF_vars(WorkerCountDown(w))
  /\ \A p \in Procs : WF_vars(ThreadRunStep(p))

\* Progress is checked over the Runs of at most MaxFairIters iterations.
FairRunSetup(c) == RunSetup(c) /\ curN' <= MaxFairIters

FairClientStep(c) ==
  \/ CallInit(c) \/ InitReset(c) \/ InitSpawn(c) \/ InitWait(c)
  \/ InitReturn(c)
  \/ CallRun(c) \/ RunLock(c) \/ FairRunSetup(c) \/ RunReset(c)
  \/ RunPublish(c) \/ RunWait(c) \/ RunReturn(c)
  \/ CallDestroy(c) \/ DestroyLock(c) \/ DestroyWait(c) \/ DestroyPublish(c)
  \/ DestroyJoin(c) \/ DestroyReturn(c)

FairNext ==
  \/ \E c \in Clients : FairClientStep(c)
  \/ \E w \in Workers : WorkerStep(w)
  \/ \E p \in Procs : ThreadRunStep(p)

FairSpec == Init /\ [][FairNext]_vars /\ Fairness

\* Run takes no notice of the state of the pool: the same machine with Run
\* callable on a pool that was never initialized or is already destroyed
\* (Init still overlaps with no other call).
CallRunAnyState(c) ==
  /\ cpc[c] = "idle"
  /\ lifecycle # "initializing"
  /\ calls < MaxCalls
  /\ calls' = calls + 1
  /\ cpc' = [cpc EXCEPT ![c] = "run_lock"]
  /\ UNCHANGED plannerVars
  /\ UNCHANGED <<poolVars, joinIdx, workerVars, trVars, lifecycle, curRun,
                 curN, called, stray, cd, joins, repeat>>

AnyStateClientStep(c) ==
  \/ CallInit(c) \/ InitReset(c) \/ InitSpawn(c) \/ InitWait(c)
  \/ InitReturn(c)
  \/ CallRunAnyState(c) \/ RunLock(c) \/ FairRunSetup(c) \/ RunReset(c)
  \/ RunPublish(c) \/ RunWait(c) \/ RunReturn(c)
  \/ CallDestroy(c) \/ DestroyLock(c) \/ DestroyWait(c) \/ DestroyPublish(c)
  \/ DestroyJoin(c) \/ DestroyReturn(c)

AnyStateNext ==
  \/ \E c \in Clients : AnyStateClientStep(c)
  \/ \E w \in Workers : WorkerStep(w)
  \/ \E p \in Procs : ThreadRunStep(p)

AnyStateSpec == Init /\ [][AnyStateNext]_vars /\ Fairness

\* ------------------------------------------------------------------ claims
ActiveWorkers == 1..(T - 1)
Indices == 0..(curN - 1)
InRun(c) == cpc[c] \in {"run_setup", "run_reset", "run_publish", "thread_run",
                        "run_wait", "run_ret"}
InDestroy(c) == cpc[c] \in {"des_wait", "des_publish", "des_join"}
AtDestroyReturn(c) == cpc[c] = "des_join" /\ joinIdx[c] >= T

\* C1: in every Run, no index is handed to the body twice and no index
\* outside [0, N) is handed to it at all; when Run returns every index of
\* [0, N) has been handed to the body exactly once.
C1_ExactlyOnce ==
  /\ stray = 0
  /\ \A i \in 0..(MaxIters - 1) : called[i] <= 1
  /\ \A c \in Clients :
       cpc[c] = "run_ret" => \A i \in Indices : called[i] = 1

\* a Run on several threads has returned after the whole range of the last
\* slot that got one was taken from its tail by other threads
C1_Witness ==
  \E c \in Clients :
    /\ cpc[c] = "run_ret"
    /\ T > 1
    /\ curN = MaxIters
    /\ \E i \in ActiveWorkers :
         /\ PartLen(curN, i) > 0
         /\ info[i].range_start = PartOffset(curN, i)
         /\ info[i].range_end = PartOffset(curN, i)

\* C2: when Run returns, every body invocation of this Run has been made and
\* has returned, no thread is inside ThreadRun, and range_len of every slot
\* is zero.
C2_RunPostcondition ==
  \A c \in Clients :
    cpc[c] = "run_ret" =>
      /\ \A p \in Procs : trpc[p] = "out"
      /\ \A w \in Workers : wpc[w] # "thread_run"
      /\ \A i \in 0..(T - 1) : info[i].range_len = 0
      /\ \A i \in Indices : called[i] >= 1

\* a Run of the largest size on several threads has returned, and a worker
\* executed part of it
C2_Witness ==
  \E c \in Clients :
    /\ cpc[c] = "run_ret"
    /\ T > 1
    /\ curN = MaxIters
    /\ \E i \in ActiveWorkers : info[i].range_start > PartOffset(curN, i)

\* C3: the latch never goes below zero, no worker counts it down twice
\* after one Reset, and when the latch wait of Run returns every worker
\* 1..T-1 has counted down exactly once since the Reset of this Run.
C3_LatchCompletion ==
  /\ latch >= 0
  /\ \A w \in Workers : cd[w] <= 1
  /\ \A c \in Clients :
       cpc[c] = "run_ret" =>
         /\ latch = 0
         /\ \A w \in Workers : cd[w] = (IF w \in ActiveWorkers THEN 1 ELSE 0)

\* the latch wait of the second Run on a pool with workers has returned
C3_Witness ==
  \E c \in Clients :
    /\ cpc[c] = "run_ret"
    /\ T > 1
    /\ curRun = 2
    /\ \A w \in ActiveWorkers : cd[w] = 1

\* C4: a Run call on an initialized pool returns, every worker having
\* counted down for it, unless the pool is destroyed before the call gets
\* the submit mutex.
C4_RunReturns ==
  \A c \in Clients :
    ((cpc[c] = "run_lock" \/ InRun(c)) /\ lifecycle = "initialized")
      ~> ((cpc[c] = "run_ret" /\ \A w \in ActiveWorkers : cd[w] = 1)
          \/ lifecycle = "destroyed")

\* a worker that was blocked on the condition variable has been notified of
\* a RUN event it has not handled yet
C4_Witness ==
  \E c \in Clients, w \in ActiveWorkers :
    /\ cpc[c] = "thread_run"
    /\ lifecycle = "initialized"
    /\ wpc[w] = "woken"
    /\ event # last_event[w]
    /\ Command(event) = kThreadPoolRun

\* C5: a Destroy that has the submit mutex returns; when it returns the
\* event word is SHUTDOWN and every started worker has observed SHUTDOWN,
\* left ThreadLoop and been joined once; once SHUTDOWN is published no worker
\* is in ThreadRun or about to count down.
C5_AtReturn ==
  \A c \in Clients :
    AtDestroyReturn(c) =>
      /\ event = kThreadPoolShutdown
      /\ \A w \in ActiveWorkers :
           wpc[w] # "unborn" =>
             /\ wpc[w] = "exited"
             /\ ev[w] = kThreadPoolShutdown
             /\ ~joinable[w]
             /\ joins[w] = 1

C5_Quiet ==
  lifecycle = "destroyed" =>
    \A w \in Workers :
      /\ wpc[w] \notin {"thread_run", "countdown"}
      /\ trpc[w] = "out"

C5_Shutdown ==
  /\ \A c \in Clients : (cpc[c] = "des_wait") ~> AtDestroyReturn(c)
  /\ []C5_AtReturn
  /\ []C5_Quiet

\* the first Destroy of a pool that has run work is about to return, its
\* worker joined
C5_Witness ==
  \E c \in Clients :
    /\ AtDestroyReturn(c)
    /\ ~repeat[c]
    /\ T > 1
    /\ curRun >= 1
    /\ \A w \in ActiveWorkers : wpc[w] = "exited" /\ joins[w] = 1

\* C6: no thread is joined twice; a Destroy that finds the pool already
\* destroyed never has to wait for the latch or for a thread, and none of
\* its steps changes the event word, the worker records, the latch, or the
\* state of a worker thread; a Destroy on a pool with T = 1 returns at once
\* and changes nothing.
C6_NoBlock ==
  \A c \in Clients :
    repeat[c] =>
      /\ cpc[c] = "des_wait" => latch = 0
      /\ (cpc[c] = "des_join" /\ joinIdx[c] < T) => ~joinable[joinIdx[c]]

C6_StepOfRepeat ==
  \A c \in Clients :
    (repeat[c] /\ InDestroy(c) /\ (cpc'[c] # cpc[c] \/ joinIdx'[c] # joinIdx[c]))
      => UNCHANGED <<event, info, latch, wpc, joinable, joins, lifecycle>>

C6_StepOfSingle ==
  \A c \in Clients :
    (T <= 1 /\ cpc[c] = "idle" /\ cpc'[c] = "idle" /\ calls' # calls)
      => UNCHANGED <<poolVars, workerVars, trVars, joins, lifecycle>>

C6_IdempotentDestroy ==
  /\ [](\A w \in Workers : joins[w] <= 1)
  /\ []C6_NoBlock
  /\ [][C6_StepOfRepeat]_vars
  /\ [][C6_StepOfSingle]_vars

\* a second Destroy is about to return on a pool whose worker the first
\* Destroy joined
C6_Witness ==
  \E c \in Clients :
    /\ repeat[c]
    /\ AtDestroyReturn(c)
    /\ T > 1
    /\ \A w \in ActiveWorkers : joins[w] = 1

\* C7: at most one client at a time is between taking and releasing the
\* submit mutex, and no step that writes the worker records, resets the
\* latch or publishes an event is taken while a thread is in ThreadRun.
Holders == {c \in Clients : InRun(c) \/ InDestroy(c)}

C7_Publishes(c) ==
  \/ cpc[c] = "run_setup" /\ cpc'[c] = "run_reset"
  \/ cpc[c] = "run_reset" /\ cpc'[c] = "run_publish"
  \/ cpc[c] = "run_publish" /\ cpc'[c] = "thread_run"
  \/ cpc[c] = "des_publish" /\ cpc'[c] = "des_join"

C7_Serialized ==
  /\ [](Cardinality(Holders) <= 1)
  /\ [](\A c \in Holders : run_mutex = c)
  /\ [][\A c \in Clients :
          C7_Publishes(c) =>
            /\ \A p \in Procs : trpc[p] = "out"
            /\ \A w \in Workers : wpc[w] # "thread_run"]_vars

\* one client is executing ThreadRun(0) while the other waits for the
\* submit mutex
C7_Witness ==
  \E c \in Clients, d \in Clients :
    /\ c # d
    /\ cpc[c] = "thread_run"
    /\ trpc[c] # "out"
    /\ cpc[d] \in {"run_lock", "des_lock"}

\* C8: while Init is under way no worker enters ThreadRun and no body is
\* called; when the latch wait of Init returns, every worker 1..T-1 has
\* started, has handled the INIT event and has counted down exactly once.
C8_InitBarrier ==
  /\ lifecycle = "initializing" =>
       /\ \A p \in Procs : trpc[p] = "out"
       /\ \A w \in Workers : wpc[w] # "thread_run" /\ cd[w] <= 1
       /\ curRun = 0 /\ stray = 0
  /\ \A c \in Clients :
       cpc[c] = "init_ret" =>
         \A w \in ActiveWorkers :
           /\ wpc[w] \in {"poll", "waiting", "woken"}
           /\ last_event[w] = kThreadPoolInit
           /\ cd[w] = 1

\* Init on a pool with workers is about to return
C8_Witness ==
  \E c \in Clients :
    /\ cpc[c] = "init_ret"
    /\ T > 1
    /\ latch = 0
    /\ \A w \in ActiveWorkers : cd[w] = 1

\* ------------------------------------------------- claims on the planner
UsedAxes == 1..compute.dim
NonEmptyRanges ==
  /\ compute.dim > 0
  /\ \A i \in UsedAxes : compute.axes[i].start < compute.axes[i].end

\* the number of items of a non-empty axis, and their product over the axes
ItemCount(i) ==
  1 + ((compute.axes[i].end - compute.axes[i].start - 1)
         \div compute.axes[i].step)
ItemProduct ==
  (IF compute.dim >= 1 THEN ItemCount(1) ELSE 1)
  * (IF compute.dim >= 2 THEN ItemCount(2) ELSE 1)
  * (IF compute.dim >= 3 THEN ItemCount(3) ELSE 1)

ShortcutCase ==
  /\ NonEmptyRanges
  /\ \/ T <= 1
     \/ /\ compute.cost >= 0
        /\ ItemProduct * compute.cost < kMaxCostUsingSingleThread

CalledOnceInline ==
  /\ compute.path = "inline"
  /\ FuncCalls(compute) =
       <<[i \in 1..3 |-> <<compute.axes[i].start, compute.axes[i].end>>]>>

\* the third axis is not empty, yet its start is not below the end of the
\* second axis: the case the guard of Compute3D takes for an empty range
HitsGuard3D ==
  /\ compute.dim = 3
  /\ compute.axes[3].start >= compute.axes[2].end

\* C9: a Compute1D/2D/3D call with non-empty ranges, on a pool with T <= 1
\* or with cost_per_item >= 0 and items * cost_per_item < 100, calls func
\* exactly once, inline, with the caller's ranges, and does not enter Run.
C9_Shortcut == ShortcutCase => CalledOnceInline

\* C9 holds for every call that the guard of Compute3D does not turn away.
C9_ShortcutPastGuard == (ShortcutCase /\ ~HitsGuard3D) => CalledOnceInline

\* the points of axis i that the iteration visits
Points(i) ==
  {x \in compute.axes[i].start..(compute.axes[i].end - 1) :
     (x - compute.axes[i].start) % compute.axes[i].step = 0}

Covered ==
  LET fc == FuncCalls(compute)
      K == DOMAIN fc
  IN /\ \A i \in UsedAxes :
          /\ \A k \in K : fc[k][i][1] < fc[k][i][2]
          /\ \A k \in K, l \in K :
               \/ fc[k][i] = fc[l][i]
               \/ fc[k][i][2] <= fc[l][i][1]
               \/ fc[l][i][2] <= fc[k][i][1]
          /\ \A k \in K : /\ compute.axes[i].start <= fc[k][i][1]
                          /\ fc[k][i][2] <= compute.axes[i].end
          /\ \A x \in compute.axes[i].start..(compute.axes[i].end - 1) :
               \E k \in K : fc[k][i][1] <= x /\ x < fc[k][i][2]
     /\ \A x \in [1..3 -> 0..(2 * MaxEnd)] :
          (\A i \in 1..3 : IF i \in UsedAxes THEN x[i] \in Points(i)
                           ELSE x[i] = 0)
            => Cardinality({k \in K :
                              \A i \in UsedAxes :
                                fc[k][i][1] <= x[i] /\ x[i] < fc[k][i][2]}) = 1

\* C10: for a Compute1D/2D/3D call with start < end on every axis, the
\* sub-ranges handed to func are non-empty on every axis, pairwise equal or
\* disjoint, their union is [start, end), and every multi-index of the
\* iteration space lies in exactly one of the tiles.
C10_TileCoverage == NonEmptyRanges => Covered

\* C10 holds for every call that the guard of Compute3D does not turn away.
C10_TileCoveragePastGuard == (NonEmptyRanges /\ ~HitsGuard3D) => Covered

\* ceil(a / b) for a >= 0, b >= 1
CeilDiv(a, b) == CHOOSE q \in 0..a : q * b >= a /\ (q - 1) * b < a

IsExampleCall ==
  /\ compute.dim = 2
  /\ T = ExamplePool.T
  /\ D = ExamplePool.D
  /\ <<compute.axes[1], compute.axes[2]>> = ExampleAxes

Written == 0..(T - 1)
Share(i) == (curN \div T) + (IF i < curN % T THEN 1 ELSE 0)

\* C12: Run(func, N) on T slots writes slot i the range
\* [o_i, o_i + N/T + (1 if i < N mod T else 0)) with o_0 = 0 and o_(i+1) the
\* end of slot i: the ranges are contiguous, disjoint, cover [0, N), have
\* range_len = range_end - range_start and lengths that differ by at most
\* 1; T = 4, N = 10 gives [0,3), [3,6), [6,8), [8,10).
C12_Partition ==
  curRun > 0 =>
    /\ info[0].range_start = 0
    /\ \A i \in Written :
         /\ info[i].range_end = info[i].range_start + Share(i)
         /\ info[i].range_len = info[i].range_end - info[i].range_start
         /\ i + 1 \in Written => info[i + 1].range_start = info[i].range_end
    /\ info[T - 1].range_end = curN
    /\ \A i \in Written, j \in Written :
         /\ info[i].range_len - info[j].range_len <= 1
         /\ i < j => info[i].range_end <= info[j].range_start
    /\ \A x \in 0..(curN - 1) :
         \E i \in Written : info[i].range_start <= x /\ x < info[i].range_end
    /\ (T = 4 /\ curN = 10) =>
         [i \in Written |-> <<info[i].range_start, info[i].range_end>>]
           = (0 :> <<0, 3>> @@ 1 :> <<3, 6>> @@ 2 :> <<6, 8>> @@ 3 :> <<8, 10>>)

\* Run has partitioned 10 iterations over 4 slots
C12_Witness == curRun > 0 /\ T = 4 /\ curN = 10

\* the frequencies of the cores the constructor chose
ChosenFreqs == {ctor.freqs[ctor.cores[i] + 1] : i \in 1..Len(ctor.cores)}
Built == lifecycle = "created" /\ ctor # NoCtor

\* C13: after construction D = T when all cores of cores_to_use have the
\* same max frequency, D = 2 * T otherwise, and D >= 1.
C13_DefaultTileCount ==
  Built =>
    /\ D >= 1
    /\ D = (IF Cardinality(ChosenFreqs) <= 1 THEN T
            ELSE T * kTileCountPerThread)

\* the cores the constructor chose, the largest frequency of the table, and
\* the cpus that have it (numbered from 0, as core ids are)
Range(f) == {f[i] : i \in DOMAIN f}
ChosenCores == {ctor.cores[i] : i \in 1..Len(ctor.cores)}
FMax == CHOOSE f \in Range(ctor.freqs) : \A g \in Range(ctor.freqs) : g <= f
FMaxCpus == {i - 1 : i \in {j \in 1..Len(ctor.freqs) : ctor.freqs[j] = FMax}}
Clamp(x, lo, hi) == Min(Max(x, lo), hi)

BigOnlyHeterogeneous ==
  /\ Built
  /\ ctor.policy = "AFFINITY_BIG_ONLY"
  /\ Cardinality(Range(ctor.freqs)) >= 2

IsExampleCtor ==
  /\ Built
  /\ ctor.policy = "AFFINITY_BIG_ONLY"
  /\ ctor.hint = 4
  /\ ctor.freqs = <<2, 2, 1, 1>>

NoRecord == 0 - 1
ReadTarget(p) ==
  IF trpc[p] \in {"own_load", "own_body"} THEN Tid(p)
  ELSE IF trpc[p] \in {"steal_load", "steal_body"} THEN trt[p]
  ELSE NoRecord

\* the threads that have won a CAS on record i and have not yet moved
\* range_start (the owner) or range_end (a thief)
InFlight(i) ==
  {p \in Procs : \/ trpc[p] = "own_exec" /\ Tid(p) = i
                 \/ trpc[p] = "steal_dec" /\ trt[p] = i}

RangeGap(i) == info[i].range_end - info[i].range_start

\* C15 as stated: whenever a thread reads the range_len of a record to
\* attempt a claim, range_len = range_end - range_start for that record.
C15_RangeAtClaimAsStated ==
  \A p \in Procs :
    ReadTarget(p) # NoRecord =>
      info[ReadTarget(p)].range_len = RangeGap(ReadTarget(p))

\* C15: for every record, in every state and so at every read of its
\* range_len, range_len = range_end - range_start - k, where k counts the
\* threads that have won a CAS on the record and not yet moved range_start
\* or range_end; range_len = range_end - range_start when k = 0.
C15_RangeAtClaim ==
  \A i \in 0..(T - 1) :
    info[i].range_len = RangeGap(i) - Cardinality(InFlight(i))

\* a thread is about to read a non-zero range_len of a record on which
\* another thread's claim is in flight
C15_Witness ==
  \E p \in Procs :
    /\ ReadTarget(p) # NoRecord
    /\ info[ReadTarget(p)].range_len > 0
    /\ InFlight(ReadTarget(p)) # {}

\* the successful CAS claims made on record i since Run wrote it: each one
\* is followed by one range_start++ or one range_end--, done or in flight
Claims(i) ==
  (info[i].range_start - PartOffset(curN, i))
  + (PartEnd(curN, i) - info[i].range_end)
  + Cardinality(InFlight(i))

\* C16: in every reachable state and for every record, range_start <=
\* range_end, range_len >= 0, and the successful CAS claims made on the
\* record do not exceed the length of the range Run assigned to it.
C16_NoOverClaim ==
  \A i \in 0..(T - 1) :
    /\ info[i].range_start <= info[i].range_end
    /\ info[i].range_len >= 0
    /\ Claims(i) <= PartLen(curN, i)

\* a record of two or more indices has been emptied by its owner and a
\* thief together
C16_Witness ==
  \E i \in 0..(T - 1) :
    /\ curRun > 0
    /\ PartLen(curN, i) >= 2
    /\ info[i].range_len = 0
    /\ info[i].range_start > PartOffset(curN, i)
    /\ info[i].range_end < PartEnd(curN, i)
    /\ info[i].range_start = info[i].range_end

\* a Run has published its RUN word and has not yet passed its latch wait
Published(c) == cpc[c] \in {"thread_run", "run_wait"}

\* one step of a Run publication, of a worker entering ThreadRun, of a
\* worker counting down during a Run, and of the latch wait of Run returning
PublishStep(c) == cpc[c] = "run_publish" /\ cpc'[c] = "thread_run"
EnterStep(w) == wpc[w] = "dispatch" /\ wpc'[w] = "thread_run"
CountStep(w) == cd'[w] = cd[w] + 1 /\ \E c \in Clients : Published(c)
WaitDoneStep(c) == cpc[c] = "run_wait" /\ cpc'[c] = "run_ret"

\* what one step of the pool does to the generation protocol
GenerationStep ==
  /\ \A c \in Clients :
       PublishStep(c) =>
         /\ event' # event
         /\ Command(event') = kThreadPoolRun
         /\ lifecycle = "initialized" =>
              \A w \in ActiveWorkers : last_event[w] # event' /\ cd[w] = 0
  /\ \A w \in Workers :
       EnterStep(w) =>
         /\ w \in ActiveWorkers
         /\ \E c \in Clients : Published(c)
         /\ Command(event) = kThreadPoolRun
         /\ last_event[w] # event
         /\ cd[w] = 0
  /\ \A w \in Workers :
       CountStep(w) =>
         /\ wpc[w] = "countdown"
         /\ Command(ev[w]) = kThreadPoolRun
         /\ ev[w] = event
         /\ trpc[w] = "out"
         /\ cd[w] = 0
         /\ last_event'[w] = event
  /\ \A c \in Clients :
       WaitDoneStep(c) =>
         \A w \in ActiveWorkers :
           /\ cd[w] = 1
           /\ last_event[w] = event
           /\ wpc[w] \in {"poll", "waiting", "woken"}

\* C17: every RUN publication stores a word that differs from the word it
\* replaces (the previous RUN word, or INIT for the first Run) and whose
\* command bits are RUN; on an initialized pool the word differs from every
\* worker's last_event; a worker enters ThreadRun only for a published RUN
\* word it has not handled, being one of the workers 1..T-1 and not having
\* counted down for this Run; it counts down for a Run only after
\* ThreadRun; and when the latch wait of Run returns every worker 1..T-1
\* has done both once.
C17_Generation == [][GenerationStep]_vars

\* the second of two consecutive Runs on a pool with workers has returned:
\* the event word is back to the first generation and every worker has
\* counted down for it
C17_Witness ==
  \E c \in Clients :
    /\ cpc[c] = "run_ret"
    /\ T > 1
    /\ curRun = 2
    /\ event = RunEvent(RunEvent(kThreadPoolInit))
    /\ \A w \in ActiveWorkers : cd[w] = 1 /\ last_event[w] = event

Stealing(p) == trpc[p] \in {"steal_load", "steal_cas", "steal_dec", "steal_body"}
OwnExecStep(p) == trpc[p] = "own_exec" /\ trpc'[p] = "own_body"
StealDecStep(p) == trpc[p] = "steal_dec" /\ trpc'[p] = "steal_body"
SetupStep == \E c \in Clients : cpc[c] = "run_setup" /\ cpc'[c] = "run_reset"

\* the indices of record i handed to the body so far are those below
\* range_start and those from range_end on, each once, and the rest of the
\* range has not been handed out; a thread in its steal loop has an own
\* record with range_len = 0
HeadTailState ==
  /\ \A i \in 0..(T - 1) :
       \A x \in PartOffset(curN, i)..(PartEnd(curN, i) - 1) :
         called[x] = (IF x < info[i].range_start \/ x >= info[i].range_end
                      THEN 1 ELSE 0)
  /\ \A p \in Procs : Stealing(p) => info[Tid(p)].range_len = 0 /\ trt[p] # Tid(p)

HeadTailStep ==
  /\ \A p \in Procs :
       OwnExecStep(p) =>
         /\ tridx'[p] = info[Tid(p)].range_start
         /\ info'[Tid(p)].range_start = info[Tid(p)].range_start + 1
         /\ PartOffset(curN, Tid(p)) <= tridx'[p]
         /\ tridx'[p] < info[Tid(p)].range_end
  /\ \A p \in Procs :
       StealDecStep(p) =>
         /\ trt[p] # Tid(p)
         /\ tridx'[p] = info[trt[p]].range_end - 1
         /\ info'[trt[p]].range_end = info[trt[p]].range_end - 1
         /\ info[trt[p]].range_start <= tridx'[p]
         /\ tridx'[p] < PartEnd(curN, trt[p])
  /\ \A i \in 0..(T - 1) :
       /\ info'[i].range_start # info[i].range_start =>
            \/ SetupStep
            \/ \E p \in Procs : Tid(p) = i /\ OwnExecStep(p)
       /\ info'[i].range_end # info[i].range_end =>
            \/ SetupStep
            \/ \E p \in Procs : Tid(p) # i /\ trt[p] = i /\ StealDecStep(p)
  /\ \A p \in Procs :
       (~Stealing(p) /\ Stealing(p)') =>
         /\ trpc[p] \in {"own_load", "own_body"}
         /\ info[Tid(p)].range_len = 0

\* C18: during a Run the owner of record i takes the indices s, s+1, ... of
\* its range [s, e) from range_start, in ascending order and staying below
\* range_end; other threads take e-1, e-2, ... from range_end, staying at or
\* above range_start; the indices handed out are at every moment the prefix
\* below range_start and the suffix from range_end; after Run has written
\* the records range_start of record i is changed only by thread i and
\* range_end only by other threads; and a thread enters its steal loop only
\* on reading its own range_len as 0, which stays 0 while it steals.
C18_HeadTail == []HeadTailState /\ [][HeadTailStep]_vars

\* the owner of a record is executing the first index of its range while a
\* thief is executing the last
C18_Witness ==
  \E p \in Procs, q \in Procs :
    /\ trpc[p] = "own_body"
    /\ tridx[p] = PartOffset(curN, Tid(p))
    /\ trpc[q] = "steal_body"
    /\ trt[q] = Tid(p)
    /\ tridx[q] = PartEnd(curN, Tid(p)) - 1
    /\ tridx[q] > tridx[p]

SomeAxisEmpty == \E i \in 1..3 : compute.axes[i].start >= compute.axes[i].end
BodyInvoked == compute.path # "return" /\ FuncCalls(compute) # <<>>

\* C19: a Compute3D call returns without invoking func if and only if
\* start0 >= end0 or start1 >= end1 or start2 >= end2; when all three axes
\* are non-empty func is invoked and its calls cover the iteration space.
C19_Guard3D ==
  compute.dim = 3 =>
    /\ compute.path = "return" <=> SomeAxisEmpty
    /\ ~SomeAxisEmpty => BodyInvoked /\ Covered

\* the two ways a Compute3D call departs from C19: func is not invoked
\* although no axis is empty, or it is invoked although the third axis is
C19_NotInvoked == compute.dim = 3 /\ ~SomeAxisEmpty /\ compute.path = "return"
C19_InvokedOnEmpty == compute.dim = 3 /\ SomeAxisEmpty /\ BodyInvoked

\* client c holds the submit mutex in a Run on a pool of several threads
\* whose workers are not running
HoldsRun(c) == cpc[c] \in {"run_setup", "run_reset", "run_publish",
                           "thread_run", "run_wait", "run_ret"}
HazardRun(c) ==
  /\ T > 1
  /\ HoldsRun(c)
  /\ lifecycle \in {"created", "destroyed"}

\* the submitter has taken every index: record 0 from its head, the other
\* records from their tails, and waits on the latch
DoneAlone(c) ==
  /\ cpc[c] = "run_wait"
  /\ latch = T - 1
  /\ \A i \in Indices : called[i] = 1
  /\ info[0].range_start = PartEnd(curN, 0)
  /\ \A i \in ActiveWorkers :
       /\ info[i].range_start = PartOffset(curN, i)
       /\ info[i].range_end = PartOffset(curN, i)

C20_Alone ==
  \A c \in Clients :
    HazardRun(c) =>
      /\ cpc[c] # "run_ret"
      /\ \A w \in Workers : wpc[w] \in {"unborn", "exited"} /\ trpc[w] = "out"
      /\ cpc[c] \in {"run_publish", "thread_run", "run_wait"} => latch = T - 1
      /\ stray = 0
      /\ \A i \in 0..(MaxIters - 1) : called[i] <= 1
      /\ cpc[c] = "run_wait" => DoneAlone(c)

C20_ReturnsOnlyInitialized ==
  \A c \in Clients :
    (T > 1 /\ cpc[c] = "run_ret") => lifecycle = "initialized"

====
